---- MODULE Spec2Model ----
(***************************************************************************)
(* Model of the crossword CSP solver, src/Projects3/crossword/temp.py      *)
(* (class CrosswordCreator): node consistency, AC-3 and backtracking       *)
(* search.  Words are tuples of letters; Python's 0-based position p of a  *)
(* word w is w[p + 1].  Python's None is modelled by None (for overlaps)   *)
(* and NoneResult (for return values).                                     *)
(***************************************************************************)
EXTENDS Integers, Sequences, FiniteSets, TLC

----------------------------------------------------------------------------
(* Bounds of the model *)

\* largest vocabulary (number of words) a puzzle is given
MaxVocab == 3

\* longest caller-supplied arc list handed to ac3
MaxArcs == 1

----------------------------------------------------------------------------
(* Puzzle descriptions (class Crossword of crossword.py) *)

None == <<>>

\* the words every vocabulary is drawn from
Pool ==
  { <<"a","b">>, <<"b","a">>, <<"b","b">>,
    <<"a","b","a">>, <<"b","a","b">>, <<"a","b","b">> }

\* overlap table over the ordered pairs of distinct variables: cross gives the
\* crossing pairs, every other pair has overlap None
OverlapTable(vs, cross) ==
  [p \in {q \in vs \X vs : q[1] # q[2]} |->
     IF p \in DOMAIN cross THEN cross[p] ELSE None]

\* one ACROSS slot of length 3, no crossing
PuzzleSingle ==
  [variables |-> {1},
   length    |-> (1 :> 3),
   overlaps  |-> OverlapTable({1}, <<>>)]

\* ACROSS 1 and DOWN 2, both of length 3, position 1 of 1 = position 0 of 2
PuzzleCross ==
  [variables |-> {1, 2},
   length    |-> (1 :> 3 @@ 2 :> 3),
   overlaps  |-> OverlapTable({1, 2},
                   (<<1, 2>> :> <<1, 0>> @@ <<2, 1>> :> <<0, 1>>))]

\* ACROSS 1 and DOWN 2, both of length 2, sharing their first cell
PuzzleCorner ==
  [variables |-> {1, 2},
   length    |-> (1 :> 2 @@ 2 :> 2),
   overlaps  |-> OverlapTable({1, 2},
                   (<<1, 2>> :> <<0, 0>> @@ <<2, 1>> :> <<0, 0>>))]

\* two ACROSS slots of length 2 that do not cross
PuzzleParallel ==
  [variables |-> {1, 2},
   length    |-> (1 :> 2 @@ 2 :> 2),
   overlaps  |-> OverlapTable({1, 2}, <<>>)]

\* ACROSS 1 (length 3) crossed by DOWN 2 (length 2) at its first cell and by
\* DOWN 3 (length 3) at its last cell
PuzzleChain ==
  [variables |-> {1, 2, 3},
   length    |-> (1 :> 3 @@ 2 :> 2 @@ 3 :> 3),
   overlaps  |-> OverlapTable({1, 2, 3},
                   (<<1, 2>> :> <<0, 0>> @@ <<2, 1>> :> <<0, 0>> @@
                    <<1, 3>> :> <<2, 0>> @@ <<3, 1>> :> <<0, 2>>))]

Puzzles ==
  {PuzzleSingle, PuzzleCross, PuzzleCorner, PuzzleParallel, PuzzleChain}

\* the vocabularies: the non-empty sets of at most MaxVocab words
Vocabularies ==
  {ws \in SUBSET Pool : Cardinality(ws) >= 1 /\ Cardinality(ws) <= MaxVocab}

----------------------------------------------------------------------------
(* State *)

VARIABLES
  crossword,   \* self.crossword: variables, length, overlaps, words
  domains,     \* self.domains: variable -> set of words
  pc,          \* position of the running call
  todo,        \* enforce_node_consistency: variables still to be visited
  arcs,        \* the arcs argument of ac3 (None: all arcs)
  queue,       \* ac3: the worklist
  ac3ret,      \* ac3: value returned by the last call that returned
  stack,       \* backtrack: the frames of the active calls, innermost last
  callArg,     \* backtrack: the assignment of the call being entered
  retval,      \* backtrack: value returned by the call that just returned
  result,      \* solve: the returned value
  calls,       \* number of ac3 calls that have returned
  first,       \* value returned by the first ac3 call
  entry,       \* the domains when the last ac3 call was entered
  listed,      \* the list of all arcs line 143 built in the first ac3 call
  accepted,    \* value returned by a direct call of consistent
  revised,     \* ac3: value returned by the last call of revise
  game,        \* Minesweeper.mines: the cells of the board holding a mine
  ai           \* the MinesweeperAI: moves_made, mines, safes, knowledge

vars ==
  <<crossword, domains, pc, todo, arcs, queue, ac3ret, stack, callArg,
    retval, result, calls, first, entry, listed, accepted, revised, game, ai>>

Variables == crossword.variables

\* Crossword.neighbors(var)
neighbors(x) ==
  {y \in Variables \ {x} : crossword.overlaps[<<x, y>>] # None}

\* all the enumerations of a finite set, as sequences (iteration orders of a
\* Python set)
Orders(S) ==
  {f \in [1..Cardinality(S) -> S] : \A i, j \in DOMAIN f : f[i] = f[j] => i = j}

----------------------------------------------------------------------------
(* Return values *)

\* MinesweeperAI.__init__: nothing played, nothing known
NewAI == [moves_made |-> {}, mines |-> {}, safes |-> {}, knowledge |-> <<>>]

NoneResult == [kind |-> "None", val |-> <<>>]

Dict(a) == [kind |-> "dict", val |-> a]

----------------------------------------------------------------------------
(* enforce_node_consistency *)

\* the words line 103 collects for removal
WordsToRemoveBug(var) ==
  {word \in domains[var] : crossword.length[var] = Len(word)}

WordsToRemove(var) ==
  {word \in domains[var] : crossword.length[var] # Len(word)}

\* one iteration of the loop of lines 102-104; the call returns after the
\* last variable and solve goes on to ac3
EnforceNodeConsistency ==
  /\ pc = "enforce_node_consistency"
  /\ \E var \in todo :
       /\ domains' = [domains EXCEPT ![var] = @ \ WordsToRemove(var)]
       /\ todo' = todo \ {var}
       /\ pc' = IF todo' = {} THEN "ac3" ELSE pc
  /\ UNCHANGED <<crossword, arcs, queue, ac3ret, stack, callArg, retval,
                 result, calls, first, entry, listed, accepted, revised, game, ai>>

----------------------------------------------------------------------------
(* revise *)

\* lines 122-129 with the positions of the overlap exchanged
ReviseRemovedSwapped(x, y) ==
  LET overlap == crossword.overlaps[<<x, y>>] IN
  IF overlap = None THEN {}
  ELSE {x_word \in domains[x] :
          ~ \E y_word \in domains[y] :
              x_word[overlap[2] + 1] = y_word[overlap[1] + 1]}

\* words_to_remove of revise(x, y): empty when the pair has no overlap
\* (line 116), else the words of x no word of y matches (lines 122-129)
ReviseRemoved(x, y) ==
  LET overlap == crossword.overlaps[<<x, y>>] IN
  IF overlap = None THEN {}
  ELSE {x_word \in domains[x] :
          ~ \E y_word \in domains[y] :
              x_word[overlap[1] + 1] = y_word[overlap[2] + 1]}

\* revise(x, y) rebuilding the domain of x from the vocabulary: the fitting
\* words that a word of y matches
reviseFromVocabulary(x, y) ==
  LET overlap == crossword.overlaps[<<x, y>>]
      kept == IF overlap = None THEN domains[x]
              ELSE {x_word \in crossword.words :
                      /\ Len(x_word) = crossword.length[x]
                      /\ \E y_word \in domains[y] :
                           x_word[overlap[1] + 1] = y_word[overlap[2] + 1]}
  IN [revised |-> kept # domains[x], domain |-> kept]

\* revise(x, y) returning True whether or not it removed a word
reviseAlwaysTrue(x, y) ==
  [revised |-> TRUE,
   domain  |-> domains[x] \ ReviseRemoved(x, y)]

\* revise(x, y): the returned flag and the domain it leaves for x
revise(x, y) ==
  [revised |-> ReviseRemoved(x, y) # {},
   domain  |-> domains[x] \ ReviseRemoved(x, y)]

----------------------------------------------------------------------------
(* ac3 *)

AllArcs == {a \in Variables \X Variables : a[2] \in neighbors(a[1])}

\* the lists line 143 can build: the variables in any order, each followed
\* by its neighbors in any order
InitialQueues ==
  {q \in Orders(AllArcs) :
     \A i, j, k \in DOMAIN q :
       (i < j /\ j < k /\ q[i][1] = q[k][1]) => q[j][1] = q[i][1]}

\* the arcs lines 152-153 would append, were nothing appended
RequeuedNone(x, y) == {}

\* the arcs lines 152-153 would append, were y not taken out of the neighbors
RequeuedWithY(x, y) == {<<z, x>> : z \in neighbors(x)}

\* the arcs lines 152-153 append after revise(x, y) changed the domain of x
Requeued(x, y) == {<<z, x>> : z \in neighbors(x) \ {y}}

\* the caller-supplied arc lists: at most MaxArcs ordered pairs of distinct
\* variables
ArcLists ==
  UNION {[1..n -> {a \in Variables \X Variables : a[1] # a[2]}] : n \in 0..MaxArcs}

AllArcsArg == [kind |-> "None", val |-> <<>>]

\* lines 142-145; the variables and the neighbors of a variable are
\* iterated in an order that is arbitrary, and the same in every call
Ac3Begin ==
  /\ pc = "ac3"
  /\ queue' \in (IF arcs.kind # "None" THEN {arcs.val}
                 ELSE IF calls = 0 THEN InitialQueues ELSE {listed})
  /\ listed' = IF arcs.kind = "None" THEN queue' ELSE listed
  /\ pc' = "ac3_loop"
  /\ entry' = domains
  /\ UNCHANGED <<crossword, domains, todo, arcs, ac3ret, stack, callArg,
                 retval, result, calls, first, accepted, revised, game, ai>>

\* ac3 returns value ret
Ac3Returns(ret) ==
  /\ ac3ret' = ret
  /\ pc' = "ac3_return"
  /\ calls' = calls + 1
  /\ first' = IF calls = 0 THEN ret ELSE first

\* one iteration of the loop of lines 147-153
Ac3Step ==
  /\ pc = "ac3_loop"
  /\ queue # <<>>
  /\ LET x == Head(queue)[1]
         y == Head(queue)[2]
         r == revise(x, y)
         doms == [domains EXCEPT ![x] = r.domain]
     IN /\ domains' = doms
        /\ revised' = r.revised
        /\ IF r.revised /\ r.domain = {}
             THEN /\ queue' = Tail(queue)
                  /\ Ac3Returns(FALSE)
             ELSE /\ IF r.revised
                       THEN \E app \in Orders(Requeued(x, y)) :
                              queue' = Tail(queue) \o app
                       ELSE queue' = Tail(queue)
                  /\ UNCHANGED <<pc, ac3ret, calls, first>>
  /\ UNCHANGED <<crossword, todo, arcs, stack, callArg, retval, result,
                 entry, listed, accepted, game, ai>>

\* line 154: the worklist is empty
Ac3Exit ==
  /\ pc = "ac3_loop"
  /\ queue = <<>>
  /\ Ac3Returns(TRUE)
  /\ UNCHANGED <<crossword, domains, todo, arcs, queue, stack, callArg,
                 retval, result, entry, listed, accepted, revised, game, ai>>

----------------------------------------------------------------------------
(* Assignments: Python dicts, kept as the sequence of their <<variable,     *)
(* word>> items in insertion order                                          *)

Keys(assignment) == {assignment[i][1] : i \in DOMAIN assignment}

Value(assignment, var) ==
  assignment[CHOOSE i \in DOMAIN assignment : assignment[i][1] = var][2]

\* truth value of a Python object that is None or a tuple
Truthy(t) == t # None

\* line 161 written with `<=` (subset) in place of `==`
assignment_completeSubset(assignment) == Keys(assignment) \subseteq Variables

\* assignment_complete, line 161
assignment_complete(assignment) == Keys(assignment) = Variables

----------------------------------------------------------------------------
(* consistent *)

\* the loop of lines 169-172 from item i on, values holding the words seen
RECURSIVE LengthsAndDistinct(_, _, _)
LengthsAndDistinct(assignment, i, values) ==
  IF i > Len(assignment) THEN TRUE
  ELSE LET var  == assignment[i][1]
           word == assignment[i][2]
       IN IF crossword.length[var] # Len(word) \/ word \in values
            THEN FALSE
            ELSE LengthsAndDistinct(assignment, i + 1, values \cup {word})

\* the loops of lines 174-182
OverlapsAgree(assignment) ==
  \A var1 \in Keys(assignment) :
    \A var2 \in neighbors(var1) :
      \/ var2 \notin Keys(assignment)
      \/ LET overlap == crossword.overlaps[<<var1, var2>>] IN
         Truthy(overlap) =>
           Value(assignment, var1)[overlap[1] + 1]
             = Value(assignment, var2)[overlap[2] + 1]

\* the loop of lines 169-172 without the test `word in values`
RECURSIVE LengthsOnly(_, _)
LengthsOnly(assignment, i) ==
  IF i > Len(assignment) THEN TRUE
  ELSE /\ crossword.length[assignment[i][1]] = Len(assignment[i][2])
       /\ LengthsOnly(assignment, i + 1)

\* consistent with the distinctness test left out
consistentNoDistinct(assignment) ==
  LengthsOnly(assignment, 1) /\ OverlapsAgree(assignment)

\* consistent with line 179 written `if all(overlap)`: position 0 is falsy
consistentZeroFalsy(assignment) ==
  /\ LengthsAndDistinct(assignment, 1, {})
  /\ \A var1 \in Keys(assignment) :
       \A var2 \in neighbors(var1) :
         \/ var2 \notin Keys(assignment)
         \/ LET overlap == crossword.overlaps[<<var1, var2>>] IN
            (overlap[1] # 0 /\ overlap[2] # 0) =>
              Value(assignment, var1)[overlap[1] + 1]
                = Value(assignment, var2)[overlap[2] + 1]

\* consistent(assignment), lines 163-183
consistent(assignment) ==
  LengthsAndDistinct(assignment, 1, {}) /\ OverlapsAgree(assignment)

----------------------------------------------------------------------------
(* select_unassigned_variable and order_domain_values *)

\* the sort key of line 212 without the minus sign on the number of neighbors
KeyLEFewestNeighbors(u, v) ==
  LET ku == <<Cardinality(domains[u]), Cardinality(neighbors(u))>>
      kv == <<Cardinality(domains[v]), Cardinality(neighbors(v))>>
  IN ku[1] < kv[1] \/ (ku[1] = kv[1] /\ ku[2] <= kv[2])

\* the sort key of line 212, compared as Python compares tuples
KeyLE(u, v) ==
  LET ku == <<Cardinality(domains[u]), - Cardinality(neighbors(u))>>
      kv == <<Cardinality(domains[v]), - Cardinality(neighbors(v))>>
  IN ku[1] < kv[1] \/ (ku[1] = kv[1] /\ ku[2] <= kv[2])

\* the variables min() of line 212 can return: those of least key (which of
\* them comes first depends on the iteration order of the set of variables)
select_unassigned_variable(assignment) ==
  LET unassigned_vars == Variables \ Keys(assignment) IN
  {var \in unassigned_vars : \A u \in unassigned_vars : KeyLE(var, u)}

RECURSIVE Sum(_, _)
Sum(f, S) ==
  IF S = {} THEN 0
  ELSE LET e == CHOOSE e \in S : TRUE IN f[e] + Sum(f, S \ {e})

\* constraint[value] of lines 193-201
constraint(var, assignment, value) ==
  LET nbrs == neighbors(var) \ Keys(assignment)
      ruled == [neighbor \in nbrs |->
                 LET overlap == crossword.overlaps[<<var, neighbor>>] IN
                 IF ~ Truthy(overlap) THEN 0
                 ELSE Cardinality(
                        {neighbor_value \in domains[neighbor] :
                           value[overlap[1] + 1]
                             # neighbor_value[overlap[2] + 1]})]
  IN Sum(ruled, nbrs)

\* the values that can come next were the list of line 203 sorted with
\* reverse=True
NextValuesDescending(var, assignment, values) ==
  {value \in values :
     \A other \in values :
       constraint(var, assignment, value) >= constraint(var, assignment, other)}

\* the values that can come next in the list of line 203, those of values
\* being still ahead: sorted() puts a least key first and ties in the
\* iteration order of the set
NextValues(var, assignment, values) ==
  {value \in values :
     \A other \in values :
       constraint(var, assignment, value) <= constraint(var, assignment, other)}

----------------------------------------------------------------------------
(* backtrack *)

\* the test `if result` of line 230 taken as always true
ResultTruthyAlways(r) == TRUE

\* the test `if result` of line 230: None and the empty dict are false
ResultTruthy(r) == r.kind = "dict" /\ Len(r.val) > 0

Top == stack[Len(stack)]

Pop == SubSeq(stack, 1, Len(stack) - 1)

\* the call of backtrack taking the values to try from the words of the
\* vocabulary that fit the variable, not from its domain
BacktrackCallFromVocabulary ==
  /\ pc = "backtrack"
  /\ IF assignment_complete(callArg)
       THEN /\ retval' = Dict(callArg)
            /\ pc' = "backtrack_return"
            /\ UNCHANGED stack
       ELSE /\ \E var \in select_unassigned_variable(callArg) :
                 stack' = Append(stack, [assignment |-> callArg,
                                         var        |-> var,
                                         values     |->
                                           {w \in crossword.words :
                                              Len(w) = crossword.length[var]},
                                         tried      |-> {}])
            /\ pc' = "backtrack_loop"
            /\ UNCHANGED retval
  /\ UNCHANGED <<crossword, domains, todo, arcs, queue, ac3ret, callArg,
                 result, calls, first, entry, listed, accepted, revised, game, ai>>

\* a call backtrack(callArg) is entered: lines 220-223 and the call of
\* order_domain_values of line 225
BacktrackCall ==
  /\ pc = "backtrack"
  /\ IF assignment_complete(callArg)
       THEN /\ retval' = Dict(callArg)
            /\ pc' = "backtrack_return"
            /\ UNCHANGED stack
       ELSE /\ \E var \in select_unassigned_variable(callArg) :
                 stack' = Append(stack, [assignment |-> callArg,
                                         var        |-> var,
                                         values     |-> domains[var],
                                         tried      |-> {}])
            /\ pc' = "backtrack_loop"
            /\ UNCHANGED retval
  /\ UNCHANGED <<crossword, domains, todo, arcs, queue, ac3ret, callArg,
                 result, calls, first, entry, listed, accepted, revised, game, ai>>

\* the loop iteration of a search that narrows the domain of the variable
\* to the value it tries
BacktrackTryNarrowing ==
  /\ pc = "backtrack_loop"
  /\ Top.values # {}
  /\ \E value \in NextValues(Top.var, Top.assignment, Top.values) :
       LET new_assignment == Append(Top.assignment, <<Top.var, value>>) IN
       /\ stack' = [stack EXCEPT ![Len(stack)] =
                      [@ EXCEPT !.values = @ \ {value},
                                !.tried  = @ \cup {value}]]
       /\ domains' = [domains EXCEPT ![Top.var] = {value}]
       /\ IF consistent(new_assignment)
            THEN callArg' = new_assignment /\ pc' = "backtrack"
            ELSE UNCHANGED <<callArg, pc>>
  /\ UNCHANGED <<crossword, todo, arcs, queue, ac3ret, retval,
                 result, calls, first, entry, listed, accepted, revised, game, ai>>

\* the loop iteration with line 226 written without .copy(): the new
\* assignment is the caller's own dict
BacktrackTryNoCopy ==
  /\ pc = "backtrack_loop"
  /\ Top.values # {}
  /\ \E value \in NextValues(Top.var, Top.assignment, Top.values) :
       LET new_assignment == Append(Top.assignment, <<Top.var, value>>) IN
       /\ stack' = [stack EXCEPT ![Len(stack)] =
                      [@ EXCEPT !.values = @ \ {value},
                                !.tried  = @ \cup {value},
                                !.assignment = new_assignment]]
       /\ IF consistent(new_assignment)
            THEN callArg' = new_assignment /\ pc' = "backtrack"
            ELSE UNCHANGED <<callArg, pc>>
  /\ UNCHANGED <<crossword, domains, todo, arcs, queue, ac3ret, retval,
                 result, calls, first, entry, listed, accepted, revised, game, ai>>

\* one iteration of the loop of lines 225-229, up to the recursive call
BacktrackTry ==
  /\ pc = "backtrack_loop"
  /\ Top.values # {}
  /\ \E value \in NextValues(Top.var, Top.assignment, Top.values) :
       LET new_assignment == Append(Top.assignment, <<Top.var, value>>) IN
       /\ stack' = [stack EXCEPT ![Len(stack)] =
                      [@ EXCEPT !.values = @ \ {value},
                                !.tried  = @ \cup {value}]]
       /\ IF consistent(new_assignment)
            THEN callArg' = new_assignment /\ pc' = "backtrack"
            ELSE UNCHANGED <<callArg, pc>>
  /\ UNCHANGED <<crossword, domains, todo, arcs, queue, ac3ret, retval,
                 result, calls, first, entry, listed, accepted, revised, game, ai>>

\* line 233: the loop is over, the call returns None
BacktrackExhausted ==
  /\ pc = "backtrack_loop"
  /\ Top.values = {}
  /\ stack' = Pop
  /\ retval' = NoneResult
  /\ pc' = "backtrack_return"
  /\ UNCHANGED <<crossword, domains, todo, arcs, queue, ac3ret, callArg,
                 result, calls, first, entry, listed, accepted, revised, game, ai>>

\* lines 229-231: the recursive call returned retval to the calling frame
BacktrackResume ==
  /\ pc = "backtrack_return"
  /\ stack # <<>>
  /\ IF ResultTruthy(retval)
       THEN stack' = Pop /\ UNCHANGED pc
       ELSE pc' = "backtrack_loop" /\ UNCHANGED stack
  /\ UNCHANGED <<crossword, domains, todo, arcs, queue, ac3ret, callArg,
                 retval, result, calls, first, entry, listed, accepted, revised, game, ai>>

----------------------------------------------------------------------------
(* solve *)

\* line 94: ac3 has returned, its value is dropped, backtrack(dict()) is
\* called
SolveBacktrack ==
  /\ pc = "ac3_return"
  /\ callArg' = <<>>
  /\ pc' = "backtrack"
  /\ UNCHANGED <<crossword, domains, todo, arcs, queue, ac3ret, stack,
                 retval, result, calls, first, entry, listed, accepted, revised, game, ai>>

\* line 94: the outermost backtrack call returned, solve returns its value
SolveReturn ==
  /\ pc = "backtrack_return"
  /\ stack = <<>>
  /\ result' = retval
  /\ pc' = "done"
  /\ UNCHANGED <<crossword, domains, todo, arcs, queue, ac3ret, stack,
                 callArg, retval, calls, first, entry, listed, accepted, revised, game, ai>>

\* the creator of a puzzle p with vocabulary ws
Crossword(p, ws) ==
  [variables |-> p.variables, length |-> p.length,
   overlaps |-> p.overlaps, words |-> ws]

\* the example puzzle: one ACROSS slot of length 3 and the vocabulary
\* {cat, dog, ox}
ExampleWords == { <<"c","a","t">>, <<"d","o","g">>, <<"o","x">> }

ExampleCrossword == Crossword(PuzzleSingle, ExampleWords)

\* __init__, lines 13-17, followed by the call of solve
Init ==
  /\ crossword \in {Crossword(p, ws) : p \in Puzzles, ws \in Vocabularies}
                    \cup {ExampleCrossword}
  /\ domains = [var \in Variables |-> crossword.words]
  /\ pc = "enforce_node_consistency"
  /\ todo = Variables
  /\ arcs = AllArcsArg
  /\ queue = <<>>
  /\ ac3ret = FALSE
  /\ stack = <<>>
  /\ callArg = <<>>
  /\ retval = NoneResult
  /\ result = NoneResult
  /\ calls = 0
  /\ first = FALSE
  /\ entry = domains
  /\ listed = <<>>
  /\ accepted = FALSE
  /\ revised = FALSE
  /\ game = {}
  /\ ai = NewAI

Next ==
  \/ EnforceNodeConsistency
  \/ Ac3Begin
  \/ Ac3Step
  \/ Ac3Exit
  \/ SolveBacktrack
  \/ BacktrackCall
  \/ BacktrackTry
  \/ BacktrackExhausted
  \/ BacktrackResume
  \/ SolveReturn

Spec == Init /\ [][Next]_vars

\* solve is sequential code: a call that can take a step takes it
SpecFair == Spec /\ WF_vars(Next)

----------------------------------------------------------------------------
(* ac3 called directly, twice in succession, on any domain store of words  *)
(* of the right lengths and with any arcs argument                         *)

\* the second call, with the arguments of the first
Ac3Again ==
  /\ pc = "ac3_return"
  /\ calls = 1
  /\ pc' = "ac3"
  /\ UNCHANGED <<crossword, domains, todo, arcs, queue, ac3ret, stack,
                 callArg, retval, result, calls, first, entry, listed, accepted, revised, game, ai>>

InitAc3 ==
  /\ crossword \in {Crossword(p, ws) : p \in Puzzles, ws \in Vocabularies}
  /\ domains \in [Variables -> SUBSET crossword.words]
  /\ \A var \in Variables : WordsToRemove(var) = {}
  /\ pc = "ac3"
  /\ todo = {}
  /\ arcs \in {AllArcsArg} \cup {[kind |-> "list", val |-> l] : l \in ArcLists}
  /\ queue = <<>>
  /\ ac3ret = FALSE
  /\ stack = <<>>
  /\ callArg = <<>>
  /\ retval = NoneResult
  /\ result = NoneResult
  /\ calls = 0
  /\ first = FALSE
  /\ entry = domains
  /\ listed = <<>>
  /\ accepted = FALSE
  /\ revised = FALSE
  /\ game = {}
  /\ ai = NewAI

NextAc3 ==
  \/ Ac3Begin
  \/ Ac3Step
  \/ Ac3Exit
  \/ Ac3Again

SpecAc3 == InitAc3 /\ [][NextAc3]_vars

\* ac3 is sequential code: a call that can take a step takes it
SpecAc3Fair == SpecAc3 /\ WF_vars(NextAc3)

----------------------------------------------------------------------------
(* consistent called directly on any assignment of vocabulary words        *)

\* the dicts over the variables vs with words of ws, of any length
Assignments(vs, ws) ==
  UNION {{a \in [1..n -> vs \X ws] :
            \A i, j \in 1..n : a[i][1] = a[j][1] => i = j}
         : n \in 0..Cardinality(vs)}

ConsistentCall ==
  /\ pc = "consistent"
  /\ accepted' = consistent(callArg)
  /\ pc' = "consistent_return"
  /\ UNCHANGED <<crossword, domains, todo, arcs, queue, ac3ret, stack,
                 callArg, retval, result, calls, first, entry,
                 listed, revised, game, ai>>

InitConsistent ==
  /\ crossword \in {Crossword(p, ws) : p \in Puzzles, ws \in Vocabularies}
  /\ domains = [var \in Variables |-> crossword.words]
  /\ pc = "consistent"
  /\ todo = {}
  /\ arcs = AllArcsArg
  /\ queue = <<>>
  /\ ac3ret = FALSE
  /\ stack = <<>>
  /\ callArg \in Assignments(Variables, crossword.words)
  /\ retval = NoneResult
  /\ result = NoneResult
  /\ calls = 0
  /\ first = FALSE
  /\ entry = domains
  /\ listed = <<>>
  /\ accepted = FALSE
  /\ revised = FALSE
  /\ game = {}
  /\ ai = NewAI

NextConsistent == ConsistentCall

SpecConsistent == InitConsistent /\ [][NextConsistent]_vars

-----------------------------------------------------------------------------
(* Minesweeper: the knowledge base of MinesweeperAI under add_knowledge     *)

Height == 2
Width == 3
MaxMines == 2
MaxMoves == 3

Cells == (0..(Height - 1)) \X (0..(Width - 1))

\* the cells of the board within one row and column of cell, cell excluded
Around(cell) ==
  {c \in Cells : /\ c # cell
                 /\ c[1] \in (cell[1] - 1)..(cell[1] + 1)
                 /\ c[2] \in (cell[2] - 1)..(cell[2] + 1)}

nearby_mines(cell) == Cardinality(Around(cell) \cap game)

Sentence(cells, count) == [cells |-> cells, count |-> count]

\* known_safes and known_mines return a set or None: some tells which
known_safes(s) ==
  IF s.count = 0 THEN [some |-> TRUE, cells |-> s.cells]
                 ELSE [some |-> FALSE, cells |-> {}]

known_mines(s) ==
  IF Cardinality(s.cells) = s.count THEN [some |-> TRUE, cells |-> s.cells]
                                    ELSE [some |-> FALSE, cells |-> {}]

SentenceMarkMine(s, cell) ==
  IF Cardinality(s.cells) = 0 \/ cell \notin s.cells
    THEN s
    ELSE [cells |-> s.cells \ {cell}, count |-> s.count - 1]

SentenceMarkSafe(s, cell) ==
  IF Cardinality(s.cells) = 0 \/ cell \notin s.cells
    THEN s
    ELSE [cells |-> s.cells \ {cell}, count |-> s.count]

mark_mine(a, cell) ==
  [a EXCEPT !.mines = @ \cup {cell},
            !.knowledge = [i \in DOMAIN @ |-> SentenceMarkMine(@[i], cell)]]

mark_safe(a, cell) ==
  [a EXCEPT !.safes = @ \cup {cell},
            !.knowledge = [i \in DOMAIN @ |-> SentenceMarkSafe(@[i], cell)]]

\* for cell in cells: self.mark_safe(cell); the marks commute, so the
\* iteration order of the set does not show in the outcome
RECURSIVE MarkSafes(_, _)
MarkSafes(a, cells) ==
  IF cells = {} THEN a
  ELSE LET c == CHOOSE c \in cells : TRUE
       IN  MarkSafes(mark_safe(a, c), cells \ {c})

RECURSIVE MarkMines(_, _)
MarkMines(a, cells) ==
  IF cells = {} THEN a
  ELSE LET c == CHOOSE c \in cells : TRUE
       IN  MarkMines(mark_mine(a, c), cells \ {c})

handle_inference(a, inference) ==
  IF known_safes(inference).some
    THEN MarkSafes(a, known_safes(inference).cells)
  ELSE IF known_mines(inference).some
    THEN MarkMines(a, known_mines(inference).cells)
  ELSE [a EXCEPT !.knowledge = Append(@, inference)]

\* the loop of lines 213-221 from the sentence at position i on: each
\* sentence is examined as the marks of the earlier ones left it
RECURSIVE EmptyKnown(_, _)
EmptyKnown(a, i) ==
  IF i > Len(a.knowledge) THEN a
  ELSE LET sentence == a.knowledge[i] IN
       IF known_safes(sentence).some
         THEN EmptyKnown(MarkSafes(a, known_safes(sentence).cells), i + 1)
       ELSE IF known_mines(sentence).some
         THEN EmptyKnown(MarkMines(a, known_mines(sentence).cells), i + 1)
       ELSE EmptyKnown(a, i + 1)

\* a tuple compared with a (frozen)set: never equal
TupleEqualsSet(c, s) == FALSE

\* `s in t` for two sets of cells (lines 227, 235): s is looked up, as
\* frozenset(s), among the elements of t, and these are tuples
CellsIn(s, t) == \E c \in t : TupleEqualsSet(c, s)

\* the loop of lines 226-241 over the pairs (i, j), i < j, of the n sentences
\* itertools.combinations took at its creation; sentences appended by
\* handle_inference are not among them
RECURSIVE Infer(_, _, _, _)
Infer(a, n, i, j) ==
  IF i >= n THEN a
  ELSE IF j > n THEN Infer(a, n, i + 1, i + 2)
  ELSE LET sentence1 == a.knowledge[i]
           sentence2 == a.knowledge[j]
       IN
       IF CellsIn(sentence1.cells, sentence2.cells)
         THEN Infer(handle_inference(a,
                      Sentence(sentence2.cells \ sentence1.cells,
                               sentence2.count - sentence1.count)),
                    n, i, j + 1)
       ELSE IF CellsIn(sentence2.cells, sentence1.cells)
         THEN Infer(handle_inference(a,
                      Sentence(sentence1.cells \ sentence2.cells,
                               sentence1.count - sentence2.count)),
                    n, i, j + 1)
       ELSE Infer(a, n, i, j + 1)

\* add_knowledge up to the inference step, lines 197-224
BeforeInference(a, cell, count) ==
  LET moved == mark_safe([a EXCEPT !.moves_made = @ \cup {cell}], cell)
      neighbours == {c \in Around(cell) : c \notin moved.moves_made}
      added == [moved EXCEPT
                  !.knowledge = Append(@, Sentence(neighbours, count))]
      emptied == EmptyKnown(added, 1)
  IN  [emptied EXCEPT
         !.knowledge = SelectSeq(@, LAMBDA sentence : sentence.cells # {})]

add_knowledge(a, cell, count) ==
  LET b == BeforeInference(a, cell, count)
  IN  Infer(b, Len(b.knowledge), 1, 2)

\* the game reveals a cell that is not a mine and tells the AI its count
AddKnowledge ==
  /\ pc = "add_knowledge"
  /\ Cardinality(ai.moves_made) < MaxMoves
  /\ \E cell \in Cells \ (game \cup ai.moves_made) :
       ai' = add_knowledge(ai, cell, nearby_mines(cell))
  /\ UNCHANGED <<crossword, domains, pc, todo, arcs, queue, ac3ret, stack,
                 callArg, retval, result, calls, first, entry,
                 listed, accepted, revised, game>>

\* Minesweeper(height, width, mines) and MinesweeperAI(height, width)
InitMines ==
  /\ crossword = Crossword(PuzzleSingle, {})
  /\ domains = [var \in Variables |-> crossword.words]
  /\ pc = "add_knowledge"
  /\ todo = {}
  /\ arcs = AllArcsArg
  /\ queue = <<>>
  /\ ac3ret = FALSE
  /\ stack = <<>>
  /\ callArg = <<>>
  /\ retval = NoneResult
  /\ result = NoneResult
  /\ calls = 0
  /\ first = FALSE
  /\ entry = domains
  /\ listed = <<>>
  /\ accepted = FALSE
  /\ revised = FALSE
  /\ game \in {g \in SUBSET Cells : Cardinality(g) <= MaxMines}
  /\ ai = NewAI

NextMines == AddKnowledge

SpecMines == InitMines /\ [][NextMines]_vars

----------------------------------------------------------------------------
(* Properties *)

\* the three constraints of the puzzle on a dict a (a sequence of items),
\* stated over its pairs of items
NoSharedWord(a) ==
  \A i, j \in DOMAIN a : i # j => a[i][2] # a[j][2]

LengthsMatch(a) ==
  \A i \in DOMAIN a : Len(a[i][2]) = crossword.length[a[i][1]]

CrossingsAgree(a) ==
  \A i, j \in DOMAIN a :
    (a[i][1] # a[j][1] /\ crossword.overlaps[<<a[i][1], a[j][1]>>] # None) =>
      LET o == crossword.overlaps[<<a[i][1], a[j][1]>>] IN
      a[i][2][o[1] + 1] = a[j][2][o[2] + 1]

\* a choice f of one word per variable solves the puzzle
Solves(f) ==
  /\ \A v \in Variables : Len(f[v]) = crossword.length[v]
  /\ \A u, v \in Variables : u # v => f[u] # f[v]
  /\ \A u \in Variables : \A v \in neighbors(u) :
       LET o == crossword.overlaps[<<u, v>>] IN f[u][o[1] + 1] = f[v][o[2] + 1]

\* the words of the vocabulary of the length of variable v
FittingWords(v) == {w \in crossword.words : Len(w) = crossword.length[v]}

EmptyDomain == \E v \in Variables : domains[v] = {}

\* C1: an assignment returned by solve() has no word shared by two
\* variables, every word of its variable's length, and equal letters at the
\* overlap of every pair of crossing variables.
C1_ReturnedAssignmentSatisfiesConstraints ==
  (pc = "done" /\ result.kind = "dict") =>
    /\ NoSharedWord(result.val)
    /\ LengthsMatch(result.val)
    /\ CrossingsAgree(result.val)

\* solve() returned an assignment of a puzzle with crossing variables
C1_Witness ==
  /\ pc = "done"
  /\ result.kind = "dict"
  /\ \E v \in Variables : neighbors(v) # {}

\* C2: solve() returns an assignment exactly when some choice of vocabulary
\* words for all the variables satisfies the length, distinctness and
\* overlap constraints, and None otherwise.
C2_SolveComplete ==
  pc = "done" =>
    (result.kind = "dict" <=>
       \E f \in [Variables -> crossword.words] : Solves(f))

\* solve() found a solution after ac3 had pruned a domain
C2_Witness ==
  /\ pc = "done"
  /\ result.kind = "dict"
  /\ \E v \in Variables : domains[v] # FittingWords(v)

\* C3: when a domain is empty after node consistency or AC-3, ac3 has
\* returned failure and backtrack is not called.
C3_NoSearchAfterEmptyDomain ==
  (pc = "backtrack" /\ EmptyDomain) => FALSE

\* for every arc (x, y), every word of x has a word of y agreeing with it at
\* the overlap
ArcConsistent ==
  \A a \in AllArcs :
    LET o == crossword.overlaps[a] IN
    \A w \in domains[a[1]] : \E w2 \in domains[a[2]] : w[o[1] + 1] = w2[o[2] + 1]

\* C4: ac3 returns False if a domain ends up empty, and True only if arc
\* consistency is enforced and no domain is empty.
C4_Ac3ReturnValue ==
  pc = "ac3_return" =>
    /\ EmptyDomain => ac3ret = FALSE
    /\ ac3ret = TRUE => (~ EmptyDomain /\ (arcs.kind = "None" => ArcConsistent))

\* C5: once enforce_node_consistency has visited a variable, the words of
\* its domain have the variable's length, in every later state of the solve,
\* and when it returns each domain holds exactly the vocabulary words of
\* that length.
C5_NodeConsistency ==
  \A v \in Variables \ todo :
    /\ \A w \in domains[v] : Len(w) = crossword.length[v]
    /\ pc = "ac3" => domains[v] = FittingWords(v)

\* node consistency has returned after removing a word and keeping another
C5_Witness ==
  /\ pc = "ac3"
  /\ \E v \in Variables : domains[v] # {} /\ domains[v] # crossword.words

\* C6: when ac3, started with all the arcs, returns success, every word of
\* Domain[x] has for every arc (x, y) a word of Domain[y] agreeing with it at
\* the overlap.
C6_ArcConsistentOnSuccess ==
  (pc = "ac3_return" /\ ac3ret = TRUE /\ arcs.kind = "None") => ArcConsistent

\* ac3 over all the arcs returned success after removing a word
C6_Witness ==
  /\ pc = "ac3_return"
  /\ ac3ret = TRUE
  /\ arcs.kind = "None"
  /\ domains # entry

\* C7 as stated: whatever the first call returned, the second ac3 call
\* leaves the domains as the first call left them.
C7_SecondCallRemovesNothing ==
  (pc = "ac3_return" /\ calls = 2) => domains = entry

\* C7 as amended: when the first ac3 call, over all the arcs, returned
\* success, the second call leaves the domains as the first call left them.
C7_SecondCallAfterSuccessRemovesNothing ==
  (pc = "ac3_return" /\ calls = 2 /\ first = TRUE /\ arcs.kind = "None") =>
    domains = entry

\* the second call over all the arcs of crossing variables has returned
\* after a successful first call that left every domain non-empty
C7_Witness ==
  /\ pc = "ac3_return"
  /\ calls = 2
  /\ first = TRUE
  /\ arcs.kind = "None"
  /\ AllArcs # {}
  /\ ~ EmptyDomain

\* C8: every domain starts as the full vocabulary, and no step of
\* enforce_node_consistency, revise, ac3 or the search adds a word to a
\* domain.
C8_DomainsOnlyShrink ==
  /\ \A v \in Variables : domains[v] = crossword.words
  /\ [][\A v \in Variables : domains'[v] \subseteq domains[v]]_vars

\* ac3 has removed a word from a node-consistent domain
C8_Witness ==
  /\ pc = "ac3_loop"
  /\ \E v \in Variables : domains[v] # FittingWords(v)

\* a dict a is complete, consistent and takes every word from the current
\* domain of its variable
SolutionOverDomains(f) ==
  Solves(f) /\ \A v \in Variables : f[v] \in domains[v]

\* C9: backtrack, called with the empty assignment, returns a complete
\* assignment satisfying the constraints when some choice of one word per
\* variable from the current domains satisfies them, and None otherwise;
\* and a call returns None only after it has tried every word of the domain
\* of the variable it selected.
C9_BacktrackComplete ==
  /\ [](pc = "done" =>
         /\ result.kind = "dict" <=>
              \E f \in [Variables -> crossword.words] : SolutionOverDomains(f)
         /\ result.kind = "dict" =>
              /\ Keys(result.val) = Variables
              /\ NoSharedWord(result.val)
              /\ LengthsMatch(result.val)
              /\ CrossingsAgree(result.val))
  /\ [][(Len(stack') < Len(stack) /\ retval'.kind = "None") =>
          (Top.values = {} /\ Top.tried = domains[Top.var])]_vars

\* a recursive call has returned None to a frame: the search backtracks
C9_Witness ==
  /\ pc = "backtrack_return"
  /\ retval.kind = "None"
  /\ stack # <<>>

\* the three grounds of rejection of an assignment a
SomeLengthDiffers(a) ==
  \E i \in DOMAIN a : Len(a[i][2]) # crossword.length[a[i][1]]

SomeWordShared(a) ==
  \E i, j \in DOMAIN a : i # j /\ a[i][2] = a[j][2]

SomeNeighborsDisagree(a) ==
  \E i, j \in DOMAIN a :
    /\ a[j][1] \in neighbors(a[i][1])
    /\ LET o == crossword.overlaps[<<a[i][1], a[j][1]>>] IN
       a[i][2][o[1] + 1] # a[j][2][o[2] + 1]

\* C10: consistent(assignment) returns False exactly when an assigned word
\* has not its variable's length, or two assigned variables hold the same
\* word, or two assigned neighbors disagree at their overlap; variables not
\* assigned never cause a rejection.
C10_ConsistentVerdict ==
  pc = "consistent_return" =>
    (accepted = FALSE <=>
       \/ SomeLengthDiffers(callArg)
       \/ SomeWordShared(callArg)
       \/ (~ SomeLengthDiffers(callArg) /\ SomeNeighborsDisagree(callArg)))

\* consistent rejected an assignment of distinct fitting words for the one
\* reason that two neighbors overlapping at (0, 0) disagree
C10_Witness ==
  /\ pc = "consistent_return"
  /\ accepted = FALSE
  /\ ~ SomeLengthDiffers(callArg)
  /\ ~ SomeWordShared(callArg)
  /\ \E i, j \in DOMAIN callArg :
       /\ i # j
       /\ crossword.overlaps[<<callArg[i][1], callArg[j][1]>>] = <<0, 0>>

\* every position an overlap names lies inside every word of the domain it
\* indexes (no IndexError at lines 124, 181, 200)
IndexesInRange ==
  \A a \in AllArcs : \A w \in domains[a[1]] : crossword.overlaps[a][1] < Len(w)

\* C11: solve() ends with an ordinary return value, either None or an
\* assignment whose keys are all the variables; until then no step raises:
\* min() at line 212 is given a non-empty list and every word is indexed
\* inside its length, also when a domain is empty.
C11_SolveOutcomes ==
  /\ pc = "done" =>
       \/ result = NoneResult
       \/ result.kind = "dict" /\ Keys(result.val) = Variables
  /\ (pc = "backtrack" /\ ~ assignment_complete(callArg)) =>
       select_unassigned_variable(callArg) # {}
  /\ pc \in {"ac3", "ac3_loop", "ac3_return", "backtrack", "backtrack_loop",
             "backtrack_return", "done"} => IndexesInRange

\* solve() returned None for a puzzle one of whose domains is empty
C11_Witness ==
  /\ pc = "done"
  /\ result = NoneResult
  /\ EmptyDomain

\* the assignment of the example puzzle giving its variable the word w
ExampleAssignment(w) == Dict(<< <<1, w>> >>)

\* C12 as stated: in the example puzzle node consistency leaves {cat, dog},
\* ac3 removes nothing and solve() returns {var: cat}.
C12_ExampleReturnsCat ==
  crossword = ExampleCrossword =>
    /\ pc = "ac3" => domains[1] = { <<"c","a","t">>, <<"d","o","g">> }
    /\ pc = "ac3_return" => domains = entry
    /\ pc = "done" => result = ExampleAssignment(<<"c","a","t">>)

\* C12 as amended: in the example puzzle node consistency leaves {cat, dog},
\* ac3 removes nothing and solve() returns {var: cat} or {var: dog}.
C12_ExampleReturnsCatOrDog ==
  crossword = ExampleCrossword =>
    /\ pc = "ac3" => domains[1] = { <<"c","a","t">>, <<"d","o","g">> }
    /\ pc = "ac3_return" => domains = entry
    /\ pc = "done" =>
         \/ result = ExampleAssignment(<<"c","a","t">>)
         \/ result = ExampleAssignment(<<"d","o","g">>)

\* solve() returned {var: cat} for the example puzzle
C12_Witness ==
  /\ crossword = ExampleCrossword
  /\ pc = "done"
  /\ result = ExampleAssignment(<<"c","a","t">>)

\* the sentence inferred from sub and super is dealt with in the AI a: its
\* cells are known safe, or known mines, or the sentence is in the knowledge
Handled(a, sub, super) ==
  LET inference == Sentence(super.cells \ sub.cells, super.count - sub.count)
  IN  IF inference.count = 0 THEN inference.cells \subseteq a.safes
      ELSE IF Cardinality(inference.cells) = inference.count
        THEN inference.cells \subseteq a.mines
      ELSE \E i \in DOMAIN a.knowledge : a.knowledge[i] = inference

\* the knowledge base as the inference step of the call that made the last
\* move found it
AtInference ==
  LET cell == CHOOSE c \in ai'.moves_made \ ai.moves_made : TRUE
  IN  BeforeInference(ai, cell, nearby_mines(cell)).knowledge

\* C13: whenever, at the inference step of add_knowledge, the cells of one
\* sentence of the knowledge base are a subset of the cells of another, the
\* difference sentence is handled: its cells are marked safe or mines, or the
\* sentence is in the knowledge base when the call returns.
C13_SubsetInference ==
  [][ai'.moves_made # ai.moves_made =>
       \A i, j \in DOMAIN AtInference :
         (i # j /\ AtInference[i].cells \subseteq AtInference[j].cells) =>
           Handled(ai', AtInference[i], AtInference[j])]_vars

\* the positions of solve() after ac3 has returned
InSearch ==
  pc \in {"ac3_return", "backtrack", "backtrack_loop", "backtrack_return"}

\* C14: the domain store is never mutated during search: every step of
\* backtrack (with the calls of select_unassigned_variable,
\* order_domain_values, assignment_complete and consistent it makes) leaves
\* every domain unchanged, so the domains when solve() returns are those ac3
\* left.
C14_SearchLeavesDomains ==
  [][InSearch => domains' = domains]_vars

\* a search that assigned two variables, one of them with several words left
\* in its domain, has returned
C14_Witness ==
  /\ pc = "done"
  /\ result.kind = "dict"
  /\ Len(result.val) >= 2
  /\ \E v \in Variables : Cardinality(domains[v]) >= 2

\* the words of Domain[x] that no word of Domain[y] matches at the overlap
\* of (x, y); none when the two variables do not overlap
Unsupported(x, y) ==
  LET o == crossword.overlaps[<<x, y>>] IN
  IF o = None THEN {}
  ELSE {w \in domains[x] : \A u \in domains[y] : w[o[1] + 1] # u[o[2] + 1]}

\* C16: revise(x, y) removes from Domain[x] exactly the words no word of
\* Domain[y] matches at the overlap of (x, y), returns True if and only if a
\* word was removed, and leaves every other domain unchanged; when x and y do
\* not overlap it removes nothing and returns False.
C16_ReviseContract ==
  [][(pc = "ac3_loop" /\ queue # <<>>) =>
       LET x == Head(queue)[1]
           y == Head(queue)[2]
       IN  /\ domains'[x] = domains[x] \ Unsupported(x, y)
           /\ revised' <=> (domains'[x] # domains[x])
           /\ \A v \in Variables \ {x} : domains'[v] = domains[v]
           /\ crossword.overlaps[<<x, y>>] = None =>
                (domains' = domains /\ ~ revised')]_vars

\* a call of revise has removed some words of a domain and left others
C16_Witness ==
  /\ pc = "ac3_loop"
  /\ revised
  /\ \E v \in Variables : domains[v] # {} /\ domains[v] # entry[v]

\* C17: in ac3, when revise(x, y) removed a word and Domain[x] is still
\* non-empty, every arc (z, x) with z a neighbor of x other than y is put at
\* the end of the worklist before the next arc is popped; when nothing was
\* removed no arc is added; when Domain[x] became empty ac3 returns failure at
\* once, processing no further arc.
C17_Ac3Requeue ==
  [][(pc = "ac3_loop" /\ queue # <<>>) =>
       LET x == Head(queue)[1]
           y == Head(queue)[2]
           removed == domains'[x] # domains[x]
           rest == Len(queue) - 1
       IN  /\ (removed /\ domains'[x] # {}) =>
                /\ pc' = "ac3_loop"
                /\ Len(queue') = rest + Cardinality(neighbors(x) \ {y})
                /\ SubSeq(queue', 1, rest) = Tail(queue)
                /\ {queue'[i] : i \in (rest + 1)..Len(queue')}
                     = {<<z, x>> : z \in neighbors(x) \ {y}}
           /\ ~ removed => (pc' = "ac3_loop" /\ queue' = Tail(queue))
           /\ (removed /\ domains'[x] = {}) =>
                (pc' = "ac3_return" /\ ac3ret' = FALSE)]_vars

\* ac3 was given one arc, revise changed a domain without emptying it, and
\* the worklist now holds the arcs put back
C17_Witness ==
  /\ pc = "ac3_loop"
  /\ calls = 0
  /\ arcs.kind # "None"
  /\ Len(arcs.val) = 1
  /\ revised
  /\ queue # <<>>

\* the number of words in the domains d of the variables vs
RECURSIVE TotalSize(_, _)
TotalSize(d, vs) ==
  IF vs = {} THEN 0
  ELSE LET v == CHOOSE v \in vs : TRUE
       IN  Cardinality(d[v]) + TotalSize(d, vs \ {v})

\* C18: ac3 always terminates: a call that has built its worklist returns,
\* with success when the worklist is empty or with failure when a domain is
\* empty, because every iteration either removes a word from a domain or
\* leaves the domains alone and shortens the worklist.
C18_Ac3Terminates ==
  /\ (pc = "ac3_loop") ~> (pc = "ac3_return")
  /\ [](pc = "ac3_return" =>
          IF ac3ret THEN queue = <<>> ELSE EmptyDomain)
  /\ [][(pc = "ac3_loop" /\ pc' = "ac3_loop") =>
          \/ TotalSize(domains', Variables) < TotalSize(domains, Variables)
          \/ /\ domains' = domains
             /\ Len(queue') < Len(queue)]_vars

\* a call of ac3 that put arcs back on its worklist has returned success
C18_Witness ==
  /\ pc = "ac3_return"
  /\ ac3ret
  /\ calls = 1
  /\ \E v \in Variables :
       /\ domains[v] # entry[v]
       /\ Cardinality(neighbors(v)) >= 2

\* the words revise(x, y) removes from the domain of x in the store d
RemovedFrom(d, x, y) ==
  LET o == crossword.overlaps[<<x, y>>] IN
  IF o = None THEN {}
  ELSE {w \in d[x] : ~ \E u \in d[y] : w[o[1] + 1] = u[o[2] + 1]}

\* one fixed enumeration of a set of arcs
OneOrder(S) == CHOOSE s \in Orders(S) : TRUE

\* the outcome of the loop of ac3 on the store d and the worklist q when the
\* arcs put back are appended in their fixed enumeration
RECURSIVE ReferenceRun(_, _)
ReferenceRun(d, q) ==
  IF q = <<>> THEN [ret |-> TRUE, domains |-> d]
  ELSE LET x == Head(q)[1]
           y == Head(q)[2]
           removed == RemovedFrom(d, x, y)
           after == [d EXCEPT ![x] = @ \ removed]
       IN  IF removed # {} /\ after[x] = {}
             THEN [ret |-> FALSE, domains |-> after]
           ELSE IF removed # {}
             THEN ReferenceRun(after, Tail(q) \o OneOrder(Requeued(x, y)))
           ELSE ReferenceRun(d, Tail(q))

\* the arcs the running call of ac3 started from
InitialArcSet ==
  IF arcs.kind = "None" THEN AllArcs
  ELSE {arcs.val[i] : i \in DOMAIN arcs.val}

\* C15: the order in which arcs are taken from the worklist of ac3 does not
\* affect the outcome: whatever the order of the initial arcs and of the arcs
\* put back, the call returns the value, and on success leaves the domains,
\* that the run from the same store and the same arc set in one fixed order
\* gives.
C15_OrderIndependent ==
  pc = "ac3_return" =>
    LET ref == ReferenceRun(entry, OneOrder(InitialArcSet)) IN
    /\ ac3ret = ref.ret
    /\ ac3ret => domains = ref.domains

\* ac3 returned success after removing words, on three variables and from a
\* list of all arcs in another order than the fixed one
C15_Witness ==
  /\ pc = "ac3_return"
  /\ ac3ret
  /\ arcs.kind = "None"
  /\ Cardinality(Variables) = 3
  /\ listed # OneOrder(AllArcs)
  /\ domains # entry

\* C20: select_unassigned_variable returns a variable that is not in the
\* assignment, whose domain is of minimal size among the unassigned
\* variables, and which has the most neighbors among the unassigned variables
\* of that domain size. (The domains do not change during search, so every
\* active call still sees the domains its variable was selected with.)
C20_SelectUnassignedVariable ==
  \A k \in DOMAIN stack :
    LET var == stack[k].var
        unassigned == Variables \ Keys(stack[k].assignment)
    IN  /\ var \in unassigned
        /\ \A u \in unassigned :
             /\ Cardinality(domains[var]) <= Cardinality(domains[u])
             /\ Cardinality(domains[u]) = Cardinality(domains[var]) =>
                  Cardinality(neighbors(u)) <= Cardinality(neighbors(var))

\* a call selected its variable from a tie on the domain size, against a
\* variable with fewer neighbors
C20_Witness ==
  \E k \in DOMAIN stack :
    \E u \in Variables \ Keys(stack[k].assignment) :
      /\ u # stack[k].var
      /\ Cardinality(domains[u]) = Cardinality(domains[stack[k].var])
      /\ Cardinality(neighbors(u)) < Cardinality(neighbors(stack[k].var))

\* the assignment b is the assignment a with the one more variable var,
\* which a does not assign
OneMore(a, var, b) ==
  /\ var \notin Keys(a)
  /\ Len(b) = Len(a) + 1
  /\ \E w \in crossword.words : b = Append(a, <<var, w>>)

\* C19: backtrack always terminates and its recursion depth is bounded by the
\* number of variables: every recursive call receives an assignment with
\* exactly one more assigned variable than its caller's, that variable was
\* unassigned before, and the caller's own assignment is not changed by the
\* call.
C19_BacktrackTerminates ==
  /\ (pc = "backtrack") ~> (pc = "done")
  /\ [](Len(stack) <= Cardinality(Variables))
  /\ [](\A k \in DOMAIN stack :
          /\ k > 1 => OneMore(stack[k - 1].assignment, stack[k - 1].var,
                              stack[k].assignment)
          /\ (k = Len(stack) /\ pc = "backtrack") =>
               OneMore(stack[k].assignment, stack[k].var, callArg))
  /\ [][\A k \in DOMAIN stack :
          k \in DOMAIN stack' => stack'[k].assignment = stack[k].assignment]_vars

\* the search is as deep as there are variables, and the outermost call has
\* gone on to another value after a recursive call returned None
C19_Witness ==
  /\ pc = "backtrack_loop"
  /\ Cardinality(Variables) >= 2
  /\ Len(stack) = Cardinality(Variables)
  /\ Cardinality(stack[1].tried) >= 2

\* the (neighbor, neighbor word) pairs the word w of var rules out: the
\* neighbor is not assigned in a and its word differs from w at the overlap
RuledOut(var, a, w) ==
  {p \in (neighbors(var) \ Keys(a)) \X crossword.words :
     /\ p[2] \in domains[p[1]]
     /\ LET o == crossword.overlaps[<<var, p[1]>>]
        IN  w[o[1] + 1] # p[2][o[2] + 1]}

\* C21: order_domain_values(var, assignment) returns every word of
\* Domain[var] exactly once, in ascending order of the number of (neighbor,
\* neighbor word) pairs it rules out, counting only the neighbors of var that
\* are not assigned: in every active call the values tried and the values
\* still ahead split the domain, and no value ahead rules out fewer pairs
\* than a value tried.
C21_OrderDomainValues ==
  \A k \in DOMAIN stack :
    LET f == stack[k] IN
    /\ f.tried \cup f.values = domains[f.var]
    /\ f.tried \cap f.values = {}
    /\ \A t \in f.tried : \A v \in f.values :
         Cardinality(RuledOut(f.var, f.assignment, t))
           <= Cardinality(RuledOut(f.var, f.assignment, v))

\* a call has tried a value that rules out fewer pairs than a value still
\* ahead
C21_Witness ==
  \E k \in DOMAIN stack :
    LET f == stack[k] IN
    \E t \in f.tried : \E v \in f.values :
      Cardinality(RuledOut(f.var, f.assignment, t))
        < Cardinality(RuledOut(f.var, f.assignment, v))

\* the assignment a breaks none of the three constraints of the puzzle
Acceptable(a) == NoSharedWord(a) /\ LengthsMatch(a) /\ CrossingsAgree(a)

\* the outcomes (TRUE: a complete assignment, FALSE: None) of a backtracking
\* search from the assignment a that picks any unassigned variable and tries
\* the words of its domain in any order, going on to the next word when a
\* word is not consistent or the search below it returns None
RECURSIVE AnyOrderOutcomes(_)
AnyOrderOutcomes(a) ==
  IF Keys(a) = Variables THEN {TRUE}
  ELSE UNION {
         LET below == {AnyOrderOutcomes(Append(a, <<var, w>>)) :
                         w \in {u \in domains[var] :
                                  Acceptable(Append(a, <<var, u>>))}}
         IN  {b \in BOOLEAN :
                IF b THEN \E s \in below : TRUE \in s
                     ELSE \A s \in below : FALSE \in s}
         : var \in Variables \ Keys(a)}

\* C22: the variable-ordering and value-ordering heuristics do not affect
\* correctness: the search that picks any unassigned variable and tries the
\* values in any order has one outcome only, and it returns an assignment
\* exactly when solve()'s heuristic-guided backtrack does; the assignment
\* returned is complete and consistent.
C22_HeuristicsKeepOutcome ==
  pc = "done" =>
    /\ AnyOrderOutcomes(<<>>) = {result.kind = "dict"}
    /\ result.kind = "dict" =>
         (Keys(result.val) = Variables /\ Acceptable(result.val))

\* the search returned None although no domain is empty and the variables
\* cross
C22_Witness ==
  /\ pc = "done"
  /\ result = NoneResult
  /\ ~ EmptyDomain
  /\ AllArcs # {}

\* the choices of one word per variable that solve the puzzle with every
\* word taken from the domains ac3 was entered with
SolutionsAtEntry ==
  {f \in [Variables -> crossword.words] :
     Solves(f) /\ \A v \in Variables : f[v] \in entry[v]}

\* C23: ac3 never removes a word that is part of a solution: the words of
\* every consistent complete assignment over the domains at the entry of ac3
\* are still in the domains after every revise step and when ac3 returns;
\* hence ac3 returns failure only when there is no such assignment.
C23_Ac3KeepsSolutions ==
  /\ pc \in {"ac3_loop", "ac3_return"} =>
       \A f \in SolutionsAtEntry : \A v \in Variables : f[v] \in domains[v]
  /\ (pc = "ac3_return" /\ ~ ac3ret) => SolutionsAtEntry = {}

\* ac3 has returned after removing words from the domains of a puzzle that
\* has a solution over the domains at entry
C23_Witness ==
  /\ pc = "ac3_return"
  /\ ac3ret
  /\ domains # entry
  /\ SolutionsAtEntry # {}

\* every word of the assignment a is in the current domain of its variable
InDomains(a) == \A i \in DOMAIN a : a[i][2] \in domains[a[i][1]]

\* C24: in every assignment backtrack builds or returns, each variable's word
\* is a member of that variable's current domain: the assignments of the
\* active calls, the values they try, the assignment passed to a call and the
\* assignment returned; so the assignment solve() returns uses only words
\* that survived node consistency and ac3.
C24_AssignmentsOverDomains ==
  /\ \A k \in DOMAIN stack :
       /\ InDomains(stack[k].assignment)
       /\ stack[k].tried \cup stack[k].values \subseteq domains[stack[k].var]
  /\ pc = "backtrack" => InDomains(callArg)
  /\ (pc \in {"backtrack_return", "done"} /\ retval.kind = "dict") =>
       InDomains(retval.val)
  /\ (pc = "done" /\ result.kind = "dict") =>
       /\ InDomains(result.val)
       /\ \A i \in DOMAIN result.val : result.val[i][2] \in crossword.words

\* solve() returned an assignment for a puzzle in which ac3 removed a word
\* that fits its variable
C24_Witness ==
  /\ pc = "done"
  /\ result.kind = "dict"
  /\ \E v \in Variables : domains[v] # FittingWords(v)

====
